---- MODULE Spec2Model ----
(***************************************************************************)
(* Model of the table-to-record extraction of refactor_eng_soft:           *)
(*   models/pokemon.py          Pokemon (frozen dataclass), to_dict        *)
(*   models/pokemon_builder.py  PokemonBuilder                             *)
(*   services/pokemon_crawler.py PokemonCrawler._parse_tables              *)
(*                                                                         *)
(* Python text is a TLA+ string; the operators below compute on it with    *)
(* Len, SubSeq and \o the way the Python/bs4 calls of the source do.       *)
(* A Python value that can be of several types (Pokemon.number,            *)
(* Pokemon.image, main_image) is tagged with its type.                     *)
(* Lists and dicts that the source shares by reference live in `heap`.     *)
(***************************************************************************)
EXTENDS Integers, Sequences, FiniteSets, TLC

(***************************************************************************)
(* Bounds of the model                                                     *)
(***************************************************************************)
\* rows of a table drawn from RowPool
MaxRows == 2
\* tables of a page drawn from TablePool
MaxTables == 2
\* rows of a table drawn from CorePool
MaxLongRows == 3
\* calls made on one builder instance
MaxCalls == 4
\* records handed to write_pokemon_csv
MaxRecords == 3

(***************************************************************************)
(* Python values                                                           *)
(***************************************************************************)
None == <<"NoneType">>
PyStr(s) == <<"str", s>>
PyInt(n) == <<"int", n>>
IsStr(v) == v[1] = "str"
\* truth value of None / str / int, as `if x` and `x or y` take it
Truthy(v) ==
    CASE v[1] = "NoneType" -> FALSE
      [] v[1] = "str" -> v[2] # ""
      [] v[1] = "int" -> v[2] # 0

\* dict: a function from keys to values
EmptyDict == [k \in {} |-> ""]
Put(d, k, v) == [x \in (DOMAIN d) \cup {k} |-> IF x = k THEN v ELSE d[x]]

(***************************************************************************)
(* str methods                                                             *)
(***************************************************************************)
Char(s, i) == SubSeq(s, i, i)
Whitespace == {" ", "\t", "\n", "\r", "\f"}

\* sub in s
Contains(s, sub) ==
    \E i \in 1..(Len(s) - Len(sub) + 1) : SubSeq(s, i, i + Len(sub) - 1) = sub

\* s.startswith(p), s.endswith(p)
startswith(s, p) == Len(s) >= Len(p) /\ SubSeq(s, 1, Len(p)) = p
endswith(s, p) == Len(s) >= Len(p) /\ SubSeq(s, Len(s) - Len(p) + 1, Len(s)) = p

RECURSIVE lstripSet(_, _)
lstripSet(s, cs) ==
    IF Len(s) > 0 /\ Char(s, 1) \in cs THEN lstripSet(SubSeq(s, 2, Len(s)), cs) ELSE s

RECURSIVE rstripSet(_, _)
rstripSet(s, cs) ==
    IF Len(s) > 0 /\ Char(s, Len(s)) \in cs
    THEN rstripSet(SubSeq(s, 1, Len(s) - 1), cs) ELSE s

\* s.strip()
strip(s) == rstripSet(lstripSet(s, Whitespace), Whitespace)
\* s.rstrip(":"): every trailing colon goes
rstrip_colon(s) == rstripSet(s, {":"})

UpperChars == "ABCDEFGHIJKLMNOPQRSTUVWXYZÇÃ"
LowerChars == "abcdefghijklmnopqrstuvwxyzçã"
LowerChar(c) ==
    IF \E i \in 1..Len(UpperChars) : Char(UpperChars, i) = c
    THEN Char(LowerChars, CHOOSE i \in 1..Len(UpperChars) : Char(UpperChars, i) = c)
    ELSE c

\* s.lower()
RECURSIVE lower(_)
lower(s) ==
    IF Len(s) = 0 THEN "" ELSE LowerChar(Char(s, 1)) \o lower(SubSeq(s, 2, Len(s)))

\* s.split(sep) for a one-character sep: always at least one segment
RECURSIVE split(_, _)
split(s, sep) ==
    IF \E i \in 1..Len(s) : Char(s, i) = sep
    THEN LET i == CHOOSE j \in 1..Len(s) :
                    Char(s, j) = sep /\ \A k \in 1..(j - 1) : Char(s, k) # sep
         IN <<SubSeq(s, 1, i - 1)>> \o split(SubSeq(s, i + 1, Len(s)), sep)
    ELSE <<s>>

\* sep.join(parts)
RECURSIVE join(_, _)
join(sep, parts) ==
    IF Len(parts) = 0 THEN ""
    ELSE IF Len(parts) = 1 THEN parts[1]
    ELSE parts[1] \o sep \o join(sep, Tail(parts))

(***************************************************************************)
(* urllib.parse.urljoin(BASE_URL, src)                                     *)
(***************************************************************************)
BASE_URL == "https://pokemythology.net"

\* urlsplit raises ValueError("Invalid IPv6 URL") on a netloc with an
\* unmatched bracket
urljoin_raises(src) ==
    /\ \/ startswith(src, "//")
       \/ Contains(src, "://")
    /\ \/ Contains(src, "[") /\ ~Contains(src, "]")
       \/ Contains(src, "]") /\ ~Contains(src, "[")

\* the references the pages use: absolute (with a scheme), scheme-relative,
\* root-relative and relative to the (empty) path of BASE_URL
urljoin(base, src) ==
    IF src = "" THEN base
    ELSE IF Contains(src, "://") THEN src
    ELSE IF startswith(src, "//") THEN "https:" \o src
    ELSE IF startswith(src, "/") THEN base \o src
    ELSE base \o "/" \o src

(***************************************************************************)
(* The parsed page (BeautifulSoup): a page is its tables in document       *)
(* order; a table has attributes and its <tr> rows; a row is its <td>      *)
(* cells; a cell has its text nodes and its <img> elements, each in        *)
(* document order; an <img> is its attributes.                             *)
(***************************************************************************)
Img(src) == [src |-> src]
ImgNoSrc == [alt |-> "?"]
Cell(strings, imgs) == [strings |-> strings, imgs |-> imgs]
Txt(s) == Cell(<<s>>, <<>>)
ImgCell(src) == Cell(<<>>, <<Img(src)>>)
Table(attrs, trs) == [attrs |-> attrs, trs |-> trs]

\* tag.get(key): the attribute, or None
tag_get(attrs, key) == IF key \in DOMAIN attrs THEN PyStr(attrs[key]) ELSE None

\* the text nodes of a cell, each stripped, the empty ones dropped
RECURSIVE stripped_strings(_)
stripped_strings(strings) ==
    IF Len(strings) = 0 THEN <<>>
    ELSE (IF strip(strings[1]) = "" THEN <<>> ELSE <<strip(strings[1])>>)
         \o stripped_strings(Tail(strings))

\* td.get_text()
get_text(cell) == join("", cell.strings)
\* td.get_text(strip=True)
get_text_strip(cell) == join("", stripped_strings(cell.strings))
\* td.get_text(" ", strip=True)
get_text_sep_strip(cell) == join(" ", stripped_strings(cell.strings))

RECURSIVE row_strings(_)
row_strings(tds) ==
    IF Len(tds) = 0 THEN <<>> ELSE tds[1].strings \o row_strings(Tail(tds))

\* tr.get_text(" ", strip=True)
tr_get_text(tds) == join(" ", stripped_strings(row_strings(tds)))

RECURSIVE row_imgs(_)
row_imgs(tds) ==
    IF Len(tds) = 0 THEN <<>> ELSE tds[1].imgs \o row_imgs(Tail(tds))

\* tag.find("img"): the first <img> below the tag as a one-element sequence,
\* << >> for None (a found Tag is always truthy)
find_img(imgs) == IF Len(imgs) = 0 THEN <<>> ELSE <<imgs[1]>>

\* `img and img.get("src")`
has_src(found) == Len(found) > 0 /\ Truthy(tag_get(found[1], "src"))

(***************************************************************************)
(* _parse_tables: the rules applied to one row, in the order of the source *)
(* A rule maps a scan state st = [row_data, main_image, raised] to the     *)
(* next one; `raised` is set where the source raises.                      *)
(***************************************************************************)
ScanState(rd, mi, raised) == [row_data |-> rd, main_image |-> mi, raised |-> raised]

\* (mutant) the main image is overwritten by every later image of column 0
MainImageRuleLastWins(tds, st) ==
    LET img == find_img(tds[1].imgs)
    IN IF Len(img) > 0 /\ has_src(img)
       THEN IF urljoin_raises(img[1].src)
            THEN [st EXCEPT !.raised = TRUE]
            ELSE LET url == urljoin(BASE_URL, img[1].src)
                 IN ScanState(Put(st.row_data, "Imagem", url), PyStr(url), FALSE)
       ELSE st

\* main image: first <img> of column 0, only while main_image is unset
MainImageRule(tds, st) ==
    LET img == find_img(tds[1].imgs)
    IN IF ~Truthy(st.main_image) /\ Len(img) > 0 /\ has_src(img)
       THEN IF urljoin_raises(img[1].src)
            THEN [st EXCEPT !.raised = TRUE]
            ELSE LET url == urljoin(BASE_URL, img[1].src)
                 IN ScanState(Put(st.row_data, "Imagem", url), PyStr(url), FALSE)
       ELSE st

\* number: a row of >= 2 cells whose first cell's text contains "Nº"
NumberRule(tds, st) ==
    IF Len(tds) >= 2 /\ Contains(get_text(tds[1]), "Nº")
    THEN [st EXCEPT !.row_data = Put(@, "Nº", get_text_strip(tds[2]))]
    ELSE st

\* "coloração shiny" in line_txt
IsShinyRow(tds) == Contains(lower(tr_get_text(tds)), "coloração shiny")

\* shiny image of a marker row: the row's first <img>, else the next row's
ShinyRule(trs, pos, st) ==
    LET here == find_img(row_imgs(trs[pos]))
        shiny_img == IF Len(here) > 0 THEN here
                     ELSE IF pos + 1 <= Len(trs) THEN find_img(row_imgs(trs[pos + 1]))
                     ELSE <<>>
    IN IF has_src(shiny_img)
       THEN IF urljoin_raises(shiny_img[1].src)
            THEN [st EXCEPT !.raised = TRUE]
            ELSE [st EXCEPT !.row_data =
                     Put(@, "Coloração Shiny", urljoin(BASE_URL, shiny_img[1].src))]
       ELSE st

\* shiny image embedded in the name row
NameRowShinyRule(tds, st) ==
    LET img == find_img(row_imgs(tds))
    IN IF Len(tds) >= 2 /\ Contains(get_text(tds[1]), "Nome:") /\ has_src(img)
       THEN IF urljoin_raises(img[1].src)
            THEN [st EXCEPT !.raised = TRUE]
            ELSE [st EXCEPT !.row_data =
                     Put(@, "Coloração Shiny", urljoin(BASE_URL, img[1].src))]
       ELSE st

\* the value of a label/value pair: tds[i + 1].get_text(" ", strip=True)
PairValue(cell) == get_text_sep_strip(cell)
\* (mutant) the label is kept with its colon
PairKeyKeepColon(label) == label

\* the key of a label/value pair: label.rstrip(":")
PairKey(label) == rstrip_colon(label)

\* label/value pairs of columns i, i+1 (1-based: 1-2, 3-4, ...), from i on
RECURSIVE LabelValueRule(_, _, _)
LabelValueRule(tds, i, rd) ==
    IF i + 1 > Len(tds) THEN rd
    ELSE LET label == get_text_strip(tds[i])
         IN LabelValueRule(tds, i + 2,
                IF endswith(label, ":")
                THEN Put(rd, PairKey(label), PairValue(tds[i + 1]))
                ELSE rd)

\* (mutant) a marker row does not end the row's processing
ProcessRowNoEarlyExit(trs, pos, st0) ==
    LET tds == trs[pos]
    IN IF Len(tds) = 0 THEN st0
       ELSE LET st1 == MainImageRule(tds, st0)
                st2 == NumberRule(tds, st1)
                st2s == IF IsShinyRow(tds) THEN ShinyRule(trs, pos, st2) ELSE st2
                st3 == NameRowShinyRule(tds, st2s)
            IN IF st1.raised THEN st1
               ELSE IF st2s.raised THEN st2s
               ELSE IF st3.raised THEN st3
               ELSE [st3 EXCEPT !.row_data = LabelValueRule(tds, 1, @)]

\* the body of `for pos, tr in enumerate(trs)` for the row at pos
ProcessRow(trs, pos, st0) ==
    LET tds == trs[pos]
    IN IF Len(tds) = 0 THEN st0
       ELSE LET st1 == MainImageRule(tds, st0)
                st2 == NumberRule(tds, st1)
            IN IF st1.raised THEN st1
               ELSE IF IsShinyRow(tds) THEN ShinyRule(trs, pos, st2)
               ELSE LET st3 == NameRowShinyRule(tds, st2)
                    IN IF st3.raised THEN st3
                       ELSE [st3 EXCEPT !.row_data = LabelValueRule(tds, 1, @)]

(***************************************************************************)
(* Pokemon (frozen dataclass) and PokemonBuilder.                          *)
(* The heap is a sequence of objects, a reference is an index into it.     *)
(* A Pokemon holds its types and extra_attributes by reference.            *)
(***************************************************************************)
Pokemon(num, nam, types, img, extra) ==
    [number |-> num, name |-> nam, types |-> types, image |-> img,
     extra_attributes |-> extra]

\* what a reader of the record observes
View(p, h) ==
    [number |-> p.number, name |-> p.name, types |-> h[p.types], image |-> p.image,
     extra_attributes |-> h[p.extra_attributes]]

\* Pokemon.to_dict(type_sep) of the record seen as v: the four fixed keys,
\* then data.update(extra_attributes); the values are tagged Python values
to_dict(v, type_sep) ==
    LET data == [x \in {"Nº", "Nome", "Tipo", "Imagem"} |->
                    CASE x = "Nº" -> v.number
                      [] x = "Nome" -> PyStr(v.name)
                      [] x = "Tipo" -> PyStr(join(type_sep, v.types))
                      [] x = "Imagem" -> IF Truthy(v.image) THEN v.image ELSE PyStr("")]
        extra == v.extra_attributes
    IN [x \in (DOMAIN data) \cup (DOMAIN extra) |->
            IF x \in DOMAIN extra THEN PyStr(extra[x]) ELSE data[x]]

\* PokemonBuilder(): _attrs = {"types": [], "extra_attributes": {}} with a
\* fresh list and a fresh dict; the result is [b |-> _attrs, h |-> heap]
NewBuilder(h) ==
    [b |-> [types |-> Len(h) + 1, extra_attributes |-> Len(h) + 2],
     h |-> h \o << <<>>, EmptyDict >>]

\* the setters: number, name and image rebind a key of _attrs (new _attrs);
\* add_type and add_attribute mutate the list / dict in place (new heap)
number(b, n) == Put(b, "number", n)
name(b, n) == Put(b, "name", n)
image(b, url) == Put(b, "image", url)
\* (mutant) a type the list already holds is not appended again
add_type_dedup(b, h, t) ==
    IF \E i \in 1..Len(h[b.types]) : h[b.types][i] = t
    THEN h ELSE [h EXCEPT ![b.types] = Append(@, t)]
add_type(b, h, t) == [h EXCEPT ![b.types] = Append(@, t)]
add_attribute(b, h, key, value) == [h EXCEPT ![b.extra_attributes] = Put(@, key, value)]

\* build(): no check, no copy, no reset
build(b) ==
    Pokemon(IF "number" \in DOMAIN b THEN PyStr(b.number) ELSE PyInt(0),
            IF "name" \in DOMAIN b THEN b.name ELSE "",
            b.types,
            IF "image" \in DOMAIN b THEN PyStr(b.image) ELSE None,
            b.extra_attributes)

(***************************************************************************)
(* _parse_tables: from row_data to the record                              *)
(***************************************************************************)
\* (mutant) a type that the list already holds is not added again
RECURSIVE AddTypesDedup(_, _, _)
AddTypesDedup(b, h, parts) ==
    IF Len(parts) = 0 THEN h
    ELSE AddTypesDedup(b,
            IF \E i \in 1..Len(h[b.types]) : h[b.types][i] = strip(parts[1])
            THEN h ELSE add_type(b, h, strip(parts[1])),
            Tail(parts))

\* `for t in row_data["Tipo"].split("/"): builder.add_type(t.strip())`
RECURSIVE AddTypes(_, _, _)
AddTypes(b, h, parts) ==
    IF Len(parts) = 0 THEN h
    ELSE AddTypes(b, add_type(b, h, strip(parts[1])), Tail(parts))

\* the keys of row_data that are routed to add_attribute
GenericKeys(rd) == (DOMAIN rd) \ {"Nº", "Nome", "Tipo"}

\* `for k, v in row_data.items(): if k not in {...}: builder.add_attribute(k, v)`
RECURSIVE AddAttributes(_, _, _, _)
AddAttributes(b, h, rd, keys) ==
    IF keys = {} THEN h
    ELSE LET k == CHOOSE x \in keys : TRUE
         IN AddAttributes(b, add_attribute(b, h, k, rd[k]), rd, keys \ {k})

\* lines 253-271: [pokemon |-> the built record, h |-> the heap after it]
Assemble(rd, mi, h0) ==
    LET nb == NewBuilder(h0)
        b1 == IF "Nº" \in DOMAIN rd THEN number(nb.b, rd["Nº"]) ELSE nb.b
        b2 == IF "Nome" \in DOMAIN rd THEN name(b1, rd["Nome"]) ELSE b1
        h1 == IF "Tipo" \in DOMAIN rd THEN AddTypes(b2, nb.h, split(rd["Tipo"], "/"))
              ELSE nb.h
        b3 == IF Truthy(mi) THEN image(b2, mi[2]) ELSE b2
        h2 == AddAttributes(b3, h1, rd, GenericKeys(rd))
    IN [pokemon |-> build(b3), h |-> h2]

(***************************************************************************)
(* Inputs: rows, tables and pages of the shapes the site uses              *)
(***************************************************************************)
SeqsUpTo(S, n) == UNION {[1..k -> S] : k \in 0..n}

RowImage == <<ImgCell("/img/025.png")>>
RowImage2 == <<ImgCell("img/025b.png")>>
RowImageNoSrc == <<Cell(<<>>, <<ImgNoSrc, Img("/img/late.png")>>)>>
RowBadImage == <<ImgCell("http://[bad")>>
RowNumber == <<Txt("Nº:"), Txt("025")>>
RowNumber2 == <<Txt("Nº "), Txt(" 001 ")>>
RowNumber3 == <<Txt("x"), Txt("Nº:"), Txt("007")>>
RowName == <<Txt("Nome:"), Txt("Pikachu")>>
RowNameNoColon == <<Txt("Nome"), Txt("Pikachu")>>
RowNameShiny == <<Txt("Nome:"), Cell(<<"Raichu">>, <<Img("/img/shiny.png")>>)>>
RowType == <<Txt("Tipo:"), Txt("Fire / Flying")>>
RowHeight == <<Txt("Altura:"), Txt(" 0.4  m ")>>
RowWeight == <<Txt("Peso:"), Cell(<<" 6.0 ", "kg">>, <<>>), Txt("Odd:")>>
RowShiny == <<Txt("Coloração Shiny:"), Txt("rara")>>
RowShinyImg == <<Txt("coloração shiny"), ImgCell("/img/s2.png")>>
RowImagemLabel == <<Txt("Imagem:"), Txt("foo.png")>>
RowNoCells == <<>>
RowTypeDup == <<Txt("Tipo:"), Txt("Fire/Fire")>>
RowShinyNoSrc == <<Txt("Coloração Shiny"), Cell(<<>>, <<ImgNoSrc>>)>>
RowShinyNote == <<Txt("Obs:"), Txt("tem coloração shiny")>>

RowPool ==
    {RowImage, RowImage2, RowImageNoSrc, RowBadImage, RowNumber, RowNumber2,
     RowNumber3, RowName, RowNameNoColon, RowNameShiny, RowType, RowHeight,
     RowWeight, RowShiny, RowShinyImg, RowImagemLabel, RowNoCells}

\* pages of one primary table with any rows of the pool
RowPages == {<<Table([id |-> "t1"], trs)>> : trs \in SeqsUpTo(RowPool, MaxRows)}

\* pages of one primary table with more rows, of the image, number and shiny rows
CorePool == {RowImage, RowImage2, RowImageNoSrc, RowNumber, RowNumber2, RowShiny}
LongPages == {<<Table([id |-> "t1"], trs)>> : trs \in SeqsUpTo(CorePool, MaxLongRows)}

\* pages of one primary table with repeated types and with marker rows
\* that hold a label or an <img> without src
MarkerPool == {RowTypeDup, RowShinyNoSrc, RowShinyNote, RowImage, RowNumber, RowName}
MarkerPages == {<<Table([id |-> "t1"], trs)>> : trs \in SeqsUpTo(MarkerPool, MaxRows)}

TFull == Table([id |-> "p025"], <<RowImage, RowNumber, RowName>>)
TNoName == Table([id |-> "p001"], <<RowNumber2>>)
TRaises == Table([id |-> "p007"], <<RowNumber, RowName, RowBadImage>>)
TDecor == Table([class |-> "layout"], <<RowNumber, RowName>>)
TEmptyId == Table([id |-> ""], <<RowImage, RowNumber, RowName>>)
TNoRows == Table([id |-> "p000"], <<>>)

TablePool == {TFull, TNoName, TRaises, TDecor, TEmptyId, TNoRows}

\* pages of several tables
TablePages == SeqsUpTo(TablePool, MaxTables)

\* the end-to-end scenario, with the name row as written and with "Nome:"
RowElectric == <<Txt("Tipo:"), Txt("Electric")>>
RowAltura == <<Txt("Altura:"), Txt("0.4m")>>
ScenarioPage ==
    <<Table([id |-> "t1"], <<RowImage, RowNumber, RowNameNoColon, RowElectric, RowAltura>>)>>
ScenarioPageColon ==
    <<Table([id |-> "t1"], <<RowImage, RowNumber, RowName, RowElectric, RowAltura>>)>>

Pages ==
    RowPages \cup LongPages \cup MarkerPages \cup TablePages
    \cup {ScenarioPage, ScenarioPageColon}

PageUrl == "https://pokemythology.net/conteudo/pokemon/lista01.htm"

\* arguments of the builder's setters
Numbers == {"001", "025"}
Names == {"Pikachu", "Raichu"}
Types == {"Fire", "Flying"}
Images == {"https://pokemythology.net/img/025.png"}
AttrKeys == {"Altura"}
AttrValues == {"0.4m", "0.6m"}

(***************************************************************************)
(* State                                                                   *)
(***************************************************************************)
VARIABLES
    url,         \* PokemonCrawler.url
    soup,        \* soup.find_all("table")
    ix,          \* ordinal of the current table (enumerate(..., start=1))
    pos,         \* index of the current row in trs, from 1
    row_data,    \* the accumulator of the current table
    main_image,  \* None or the main image of the current table
    yielded,     \* what the generator has yielded: [ix, pokemon, row_data]
    log,         \* logging.error records: [ix, url]
    pc,          \* "tables", "rows", "done"; "idle" when no page is parsed
    heap,        \* lists and dicts
    builder,     \* _attrs of a PokemonBuilder used by a client
    built,       \* the records the client got from build(): [pokemon, keys, at]
    trace,       \* the calls the client made, in order
    urls,        \* main: the page URLs to visit
    url_ix,      \* main: index in urls of the URL of the current iteration, from 1
    failing,     \* main: the URLs whose crawl() raises (fetch error)
    attempted,   \* main: the URLs on which crawl() was called, in order
    all_pokemons, \* main: the records collected so far
    pokemons,    \* write_pokemon_csv: the records to write (as a reader sees them)
    csv_pos,     \* write_pokemon_csv: index in pokemons of the next record, from 1
    csvfile,     \* write_pokemon_csv: the data rows in the file
    written,     \* write_pokemon_csv: the counter
    result       \* write_pokemon_csv: the value returned

crawler_vars == <<url, soup, ix, pos, row_data, main_image, yielded, log, pc>>
client_vars == <<builder, built, trace>>
main_vars == <<urls, url_ix, failing, attempted, all_pokemons>>
csv_vars == <<pokemons, csv_pos, csvfile, written, result>>
vars == <<url, soup, ix, pos, row_data, main_image, yielded, log, pc, heap,
          builder, built, trace, urls, url_ix, failing, attempted, all_pokemons,
          pokemons, csv_pos, csvfile, written, result>>

(***************************************************************************)
(* PokemonCrawler._parse_tables                                            *)
(***************************************************************************)
Init ==
    /\ url = PageUrl
    /\ soup \in Pages
    /\ ix = 1
    /\ pos = 1
    /\ row_data = EmptyDict
    /\ main_image = None
    /\ yielded = <<>>
    /\ log = <<>>
    /\ pc = "tables"
    /\ heap = <<>>
    /\ builder = EmptyDict
    /\ built = <<>>
    /\ trace = <<>>
    /\ urls = <<>>
    /\ url_ix = 1
    /\ failing = {}
    /\ attempted = <<>>
    /\ all_pokemons = <<>>
    /\ pokemons = <<>>
    /\ csv_pos = 1
    /\ csvfile = <<>>
    /\ written = 0
    /\ result = 0

\* (mutant) every table is taken as primary
IsPrimaryAny(table) == TRUE

\* `if not table.get("id")`
IsPrimary(table) == Truthy(tag_get(table.attrs, "id"))

\* `if not table.get("id"): continue`
SkipTable ==
    /\ pc = "tables"
    /\ ix <= Len(soup)
    /\ ~IsPrimary(soup[ix])
    /\ ix' = ix + 1
    /\ UNCHANGED <<url, soup, pos, row_data, main_image, yielded, log, pc, heap>>
    /\ UNCHANGED <<client_vars, main_vars, csv_vars>>

\* lines 190-193: a primary table is entered with a fresh accumulator
EnterTable ==
    /\ pc = "tables"
    /\ ix <= Len(soup)
    /\ IsPrimary(soup[ix])
    /\ row_data' = EmptyDict
    /\ main_image' = None
    /\ pos' = 1
    /\ pc' = "rows"
    /\ UNCHANGED <<url, soup, ix, yielded, log, heap>>
    /\ UNCHANGED <<client_vars, main_vars, csv_vars>>

\* the scan state after the row at pos
Scanned == ProcessRow(soup[ix].trs, pos, ScanState(row_data, main_image, FALSE))

\* one row of the table, all rules
ScanRow ==
    /\ pc = "rows"
    /\ pos <= Len(soup[ix].trs)
    /\ ~Scanned.raised
    /\ row_data' = Scanned.row_data
    /\ main_image' = Scanned.main_image
    /\ pos' = pos + 1
    /\ UNCHANGED <<url, soup, ix, yielded, log, pc, heap>>
    /\ UNCHANGED <<client_vars, main_vars, csv_vars>>

\* (mutant) the failure is logged and ends the page's extraction
ExceptHandlerAbort ==
    /\ log' = Append(log, [ix |-> ix, url |-> url])
    /\ ix' = Len(soup) + 1
    /\ pc' = "tables"
    /\ UNCHANGED <<url, soup, pos, row_data, main_image, yielded, heap>>

\* `except Exception: logging.error(..., ix, self.url)`, then the next table
ExceptHandler ==
    /\ log' = Append(log, [ix |-> ix, url |-> url])
    /\ ix' = ix + 1
    /\ pc' = "tables"
    /\ UNCHANGED <<url, soup, pos, row_data, main_image, yielded, heap>>

\* a row whose processing raises
ScanRowRaises ==
    /\ pc = "rows"
    /\ pos <= Len(soup[ix].trs)
    /\ Scanned.raised
    /\ ExceptHandler
    /\ UNCHANGED <<client_vars, main_vars, csv_vars>>

\* after the last row: build the record and yield it
BuildRecord ==
    /\ pc = "rows"
    /\ pos > Len(soup[ix].trs)
    /\ LET r == Assemble(row_data, main_image, heap)
       IN /\ yielded' = Append(yielded,
                 [ix |-> ix, pokemon |-> r.pokemon, row_data |-> row_data])
          /\ heap' = r.h
    /\ ix' = ix + 1
    /\ pc' = "tables"
    /\ UNCHANGED <<url, soup, pos, row_data, main_image, log>>
    /\ UNCHANGED <<client_vars, main_vars, csv_vars>>

\* the generator is exhausted
Finish ==
    /\ pc = "tables"
    /\ ix > Len(soup)
    /\ pc' = "done"
    /\ UNCHANGED <<url, soup, ix, pos, row_data, main_image, yielded, log, heap>>
    /\ UNCHANGED <<client_vars, main_vars, csv_vars>>

Next ==
    \/ SkipTable
    \/ EnterTable
    \/ ScanRow
    \/ ScanRowRaises
    \/ BuildRecord
    \/ Finish

Spec == Init /\ [][Next]_vars

(***************************************************************************)
(* A client of one PokemonBuilder instance: any calls, in any order        *)
(***************************************************************************)
BuilderInit ==
    /\ url = PageUrl
    /\ soup = <<>>
    /\ ix = 1
    /\ pos = 1
    /\ row_data = EmptyDict
    /\ main_image = None
    /\ yielded = <<>>
    /\ log = <<>>
    /\ pc = "idle"
    /\ heap = NewBuilder(<<>>).h
    /\ builder = NewBuilder(<<>>).b
    /\ built = <<>>
    /\ trace = <<>>
    /\ urls = <<>>
    /\ url_ix = 1
    /\ failing = {}
    /\ attempted = <<>>
    /\ all_pokemons = <<>>
    /\ pokemons = <<>>
    /\ csv_pos = 1
    /\ csvfile = <<>>
    /\ written = 0
    /\ result = 0

CanCall == pc = "idle" /\ Len(trace) < MaxCalls

CallNumber ==
    /\ CanCall
    /\ \E n \in Numbers :
        /\ builder' = number(builder, n)
        /\ trace' = Append(trace, <<"number", n>>)
    /\ UNCHANGED <<heap, built>>
    /\ UNCHANGED <<crawler_vars, main_vars, csv_vars>>

CallName ==
    /\ CanCall
    /\ \E n \in Names :
        /\ builder' = name(builder, n)
        /\ trace' = Append(trace, <<"name", n>>)
    /\ UNCHANGED <<heap, built>>
    /\ UNCHANGED <<crawler_vars, main_vars, csv_vars>>

CallAddType ==
    /\ CanCall
    /\ \E t \in Types :
        /\ heap' = add_type(builder, heap, t)
        /\ trace' = Append(trace, <<"add_type", t>>)
    /\ UNCHANGED <<builder, built>>
    /\ UNCHANGED <<crawler_vars, main_vars, csv_vars>>

CallImage ==
    /\ CanCall
    /\ \E u \in Images :
        /\ builder' = image(builder, u)
        /\ trace' = Append(trace, <<"image", u>>)
    /\ UNCHANGED <<heap, built>>
    /\ UNCHANGED <<crawler_vars, main_vars, csv_vars>>

CallAddAttribute ==
    /\ CanCall
    /\ \E k \in AttrKeys, v \in AttrValues :
        /\ heap' = add_attribute(builder, heap, k, v)
        /\ trace' = Append(trace, <<"add_attribute", k, v>>)
    /\ UNCHANGED <<builder, built>>
    /\ UNCHANGED <<crawler_vars, main_vars, csv_vars>>

\* build(): the record is returned to the client, who keeps it
CallBuild ==
    /\ CanCall
    /\ built' = Append(built,
          [pokemon |-> build(builder), keys |-> DOMAIN builder,
           at |-> Len(trace) + 1, seen |-> View(build(builder), heap)])
    /\ trace' = Append(trace, <<"build">>)
    /\ UNCHANGED <<heap, builder>>
    /\ UNCHANGED <<crawler_vars, main_vars, csv_vars>>

BuilderNext ==
    \/ CallNumber
    \/ CallName
    \/ CallAddType
    \/ CallImage
    \/ CallAddAttribute
    \/ CallBuild

BuilderSpec == BuilderInit /\ [][BuilderNext]_vars

(***************************************************************************)
(* Properties                                                              *)
(***************************************************************************)
\* the calls of the client, replayed on a builder
RECURSIVE Replay(_, _, _)
Replay(b, h, calls) ==
    IF Len(calls) = 0 THEN [b |-> b, h |-> h]
    ELSE LET c == calls[1]
         IN CASE c[1] = "number" -> Replay(number(b, c[2]), h, Tail(calls))
              [] c[1] = "name" -> Replay(name(b, c[2]), h, Tail(calls))
              [] c[1] = "image" -> Replay(image(b, c[2]), h, Tail(calls))
              [] c[1] = "add_type" -> Replay(b, add_type(b, h, c[2]), Tail(calls))
              [] c[1] = "add_attribute" ->
                    Replay(b, add_attribute(b, h, c[2], c[3]), Tail(calls))
              [] c[1] = "build" -> Replay(b, h, Tail(calls))

\* what build() returns for these calls made on a new builder
FreshBuild(calls) ==
    LET nb == NewBuilder(<<>>)
        r == Replay(nb.b, nb.h, calls)
    IN View(build(r.b), r.h)

\* C1: build() on a builder on which number(...) or name(...) was never
\* called returns no record: every record a client got from build() comes
\* from a builder with both keys set.
C1_BuildNeedsNumberAndName ==
    \A i \in 1..Len(built) : {"number", "name"} \subseteq built[i].keys

\* C2: after a successful build() (number and name were set) the pending
\* fields are cleared: the next build() returns the record of the calls made
\* since that build() alone.
C2_BuildResetsBuilder ==
    \A i \in 2..Len(built) :
        {"number", "name"} \subseteq built[i - 1].keys =>
        built[i].seen = FreshBuild(SubSeq(trace, built[i - 1].at + 1, built[i].at - 1))

\* C3: a record returned by build() is immutable: what it shows now is
\* what it showed when build() returned it, whatever was called since.
C3_RecordImmutable ==
    \A i \in 1..Len(built) : View(built[i].pokemon, heap) = built[i].seen

\* the numbers of S in ascending order
RECURSIVE Ascending(_)
Ascending(S) ==
    IF S = {} THEN <<>>
    ELSE LET m == CHOOSE x \in S : \A y \in S : x <= y
         IN <<m>> \o Ascending(S \ {m})

\* the scan state after the first n rows of trs
RECURSIVE ScanTable(_, _)
ScanTable(trs, n) ==
    IF n = 0 THEN ScanState(EmptyDict, None, FALSE)
    ELSE LET st == ScanTable(trs, n - 1)
         IN IF st.raised THEN st ELSE ProcessRow(trs, n, st)

HasMarker(i) == "id" \in DOMAIN soup[i].attrs /\ soup[i].attrs.id # ""
TableRaises(i) == ScanTable(soup[i].trs, Len(soup[i].trs)).raised
FailedTable(i) == HasMarker(i) /\ TableRaises(i)
GoodTable(i) == HasMarker(i) /\ ~TableRaises(i)

\* the tables left behind are those before ix
FailedTables == Ascending({i \in 1..(ix - 1) : FailedTable(i)})
GoodTables == Ascending({i \in 1..(ix - 1) : GoodTable(i)})

\* C4: a primary table whose processing raises is logged with the page URL
\* and its ordinal, yields no record, and the later primary tables are still
\* processed and yielded in document order; the page's extraction ends
\* normally with every table visited.
C4_FailureIsLoggedAndSkipped ==
    /\ [k \in 1..Len(log) |-> log[k].ix] = FailedTables
    /\ \A k \in 1..Len(log) : log[k].url = url
    /\ [k \in 1..Len(yielded) |-> yielded[k].ix] = GoodTables
    /\ pc = "done" => ix = Len(soup) + 1

\* a page where a table failed and a later one was yielded
C4_Witness ==
    /\ pc = "done"
    /\ \E k \in 1..Len(log), j \in 1..Len(yielded) : log[k].ix < yielded[j].ix

\* C5: a primary table from whose rows no number or no name was extracted
\* produces no record.
C5_NoRecordWithoutNumberOrName ==
    \A k \in 1..Len(yielded) : {"Nº", "Nome"} \subseteq DOMAIN yielded[k].row_data

\* C6: no record comes from a table without an id attribute, each table
\* yields at most one record, and the records of a page are at most as many
\* as its tables with the attribute.
C6_OnlyMarkedTablesYield ==
    /\ \A k \in 1..Len(yielded) : "id" \in DOMAIN soup[yielded[k].ix].attrs
    /\ \A j, k \in 1..Len(yielded) : yielded[j].ix = yielded[k].ix => j = k
    /\ Len(yielded) <= Cardinality({i \in 1..Len(soup) : "id" \in DOMAIN soup[i].attrs})

\* a finished page with a table without id that has number and name rows,
\* and a record from another table
C6_Witness ==
    /\ pc = "done"
    /\ Len(yielded) > 0
    /\ \E i \in 1..Len(soup) :
          /\ "id" \notin DOMAIN soup[i].attrs
          /\ Len(soup[i].trs) > 0

\* the rows among the first n of trs whose first cell's first <img> has a source
ImageRows(trs, n) ==
    {k \in 1..n : /\ Len(trs[k]) > 0
                  /\ Len(trs[k][1].imgs) > 0
                  /\ "src" \in DOMAIN trs[k][1].imgs[1]
                  /\ trs[k][1].imgs[1].src # ""}

\* the resolved URL of the first such row, None when there is none
FirstImage(trs, n) ==
    IF ImageRows(trs, n) = {} THEN None
    ELSE LET k == CHOOSE x \in ImageRows(trs, n) : \A y \in ImageRows(trs, n) : x <= y
         IN PyStr(urljoin(BASE_URL, trs[k][1].imgs[1].src))

\* C7: during the scan of a table the main image is the resolved URL of the
\* first row scanned so far whose first cell holds an image with a source
\* (so it never changes once set), and the record's image is that of the
\* whole table.
C7_FirstImageWins ==
    /\ pc = "rows" => main_image = FirstImage(soup[ix].trs, pos - 1)
    /\ \A k \in 1..Len(yielded) :
          LET trs == soup[yielded[k].ix].trs
          IN yielded[k].pokemon.image = FirstImage(trs, Len(trs))

\* a record from a table with two rows that have an image with a source in
\* column 0, of different sources
C7_Witness ==
    \E k \in 1..Len(yielded) :
        LET trs == soup[yielded[k].ix].trs
        IN \E a, b \in ImageRows(trs, Len(trs)) :
              /\ a < b
              /\ trs[a][1].imgs[1].src # trs[b][1].imgs[1].src
              /\ yielded[k].pokemon.image = PyStr(urljoin(BASE_URL, trs[a][1].imgs[1].src))

\* C8: the number of every record is text, never a numeric value.
C8_NumberIsText ==
    \A k \in 1..Len(yielded) : IsStr(yielded[k].pokemon.number)

\* the record of the end-to-end scenario
ScenarioRecord(p) ==
    /\ p.number = PyStr("025")
    /\ p.name = "Pikachu"
    /\ p.types = <<"Electric">>
    /\ p.image = PyStr("https://pokemythology.net/img/025.png")
    /\ "Altura" \in DOMAIN p.extra_attributes
    /\ p.extra_attributes["Altura"] = "0.4m"

\* C9 as written: the rows [image], ["Nº:", "025"], ["Nome", "Pikachu"],
\* ["Tipo:", "Electric"], ["Altura:", "0.4m"] yield exactly one record, with
\* number "025", name "Pikachu", types ["Electric"], the first row's image
\* and Altura = "0.4m".
C9_ScenarioAsWritten ==
    (soup = ScenarioPage /\ pc = "done") =>
        /\ Len(yielded) = 1
        /\ ScenarioRecord(View(yielded[1].pokemon, heap))

\* C9 amended: the same with the name row ["Nome:", "Pikachu"].
C9_ScenarioWithColon ==
    (soup = ScenarioPageColon /\ pc = "done") =>
        /\ Len(yielded) = 1
        /\ log = <<>>
        /\ ScenarioRecord(View(yielded[1].pokemon, heap))

C9_Witness == soup = ScenarioPageColon /\ pc = "done" /\ Len(yielded) = 1

\* s with leading and trailing whitespace removed and every inner run of
\* whitespace replaced by one space
RECURSIVE CollapseRuns(_)
CollapseRuns(s) ==
    IF Len(s) = 0 THEN ""
    ELSE IF Char(s, 1) \in Whitespace
         THEN " " \o CollapseRuns(lstripSet(s, Whitespace))
         ELSE Char(s, 1) \o CollapseRuns(SubSeq(s, 2, Len(s)))
Collapsed(s) == CollapseRuns(strip(s))

\* the pairs (i, i+1), i odd, of a row whose label ends with a colon
LabelledPairs(tds) ==
    {i \in 1..(Len(tds) - 1) : i % 2 = 1 /\ endswith(strip(get_text(tds[i])), ":")}

\* C10: after a row to which the label/value rule applies, every pair whose
\* trimmed label ends with a colon has its entry in the accumulator, keyed
\* by the label without the colon, the value being the value cell's text
\* trimmed and with inner whitespace runs collapsed to one space.
C10_ValueWhitespaceCollapsed ==
    (pc = "rows" /\ pos > 1 /\ ~IsShinyRow(soup[ix].trs[pos - 1])) =>
        LET tds == soup[ix].trs[pos - 1]
        IN \A i \in LabelledPairs(tds) :
              LET key == rstrip_colon(strip(get_text(tds[i])))
              IN /\ key \in DOMAIN row_data
                 /\ (\A j \in LabelledPairs(tds) :
                        j > i => rstrip_colon(strip(get_text(tds[j]))) # key)
                    => row_data[key] = Collapsed(get_text(tds[i + 1]))

\* the segments of a category value: cut at every "/", each trimmed
RECURSIVE Segments(_)
Segments(s) ==
    IF \E i \in 1..Len(s) : Char(s, i) = "/"
    THEN LET i == CHOOSE j \in 1..Len(s) :
                    Char(s, j) = "/" /\ \A k \in 1..(j - 1) : Char(s, k) # "/"
         IN <<strip(SubSeq(s, 1, i - 1))>> \o Segments(SubSeq(s, i + 1, Len(s)))
    ELSE <<strip(s)>>

\* C11: the types of a yielded record are the segments of the accumulator's
\* "Tipo" value, cut at "/", each trimmed, in order and with duplicates
\* kept; they are empty when the accumulator has no "Tipo".
C11_TypesAreTheSegments ==
    \A k \in 1..Len(yielded) :
        LET rd == yielded[k].row_data
        IN heap[yielded[k].pokemon.types] =
              IF "Tipo" \in DOMAIN rd THEN Segments(rd["Tipo"]) ELSE <<>>

\* records of "Fire / Flying" and of "Fire/Fire" are both among those seen:
\* here the one with the repeated segment
C11_Witness ==
    \E k \in 1..Len(yielded) :
        /\ "Tipo" \in DOMAIN yielded[k].row_data
        /\ yielded[k].row_data["Tipo"] = "Fire/Fire"
        /\ heap[yielded[k].pokemon.types] = <<"Fire", "Fire">>

\* the labels of the four canonical fields
CanonicalLabels == {"Nº", "Nome", "Tipo", "Imagem"}

\* C12: no key of a yielded record's extra attributes is one of the four
\* canonical labels.
C12_AttributesExcludeCanonical ==
    \A k \in 1..Len(yielded) :
        (DOMAIN heap[yielded[k].pokemon.extra_attributes]) \cap CanonicalLabels = {}

\* C20: the flattening of every yielded record agrees with its canonical
\* fields: "Nº", "Nome" and "Tipo" are its number, name and joined types,
\* and "Imagem" is its image, or "" when it has none.
C20_FlatteningAgreesWithFields ==
    \A k \in 1..Len(yielded) :
        LET v == View(yielded[k].pokemon, heap)
            d == to_dict(v, "/")
        IN /\ d["Nº"] = v.number
           /\ d["Nome"] = PyStr(v.name)
           /\ d["Tipo"] = PyStr(join("/", v.types))
           /\ d["Imagem"] = IF Truthy(v.image) THEN v.image ELSE PyStr("")

(***************************************************************************)
(* services/csv_writer.py: write_pokemon_csv(pokemons, path)               *)
(***************************************************************************)
\* value.replace("\n", " ")
RECURSIVE replace_newline(_)
replace_newline(s) ==
    IF Len(s) = 0 THEN ""
    ELSE (IF Char(s, 1) = "\n" THEN " " ELSE Char(s, 1))
         \o replace_newline(SubSeq(s, 2, Len(s)))

\* clean_csv_value: a str loses its line breaks and outer whitespace
clean_csv_value(value) ==
    IF IsStr(value) THEN PyStr(strip(replace_newline(value[2]))) ELSE value

\* `{k: clean_csv_value(v) for k, v in p.to_dict().items()}`
CsvRow(p) == LET d == to_dict(p, "/") IN [k \in DOMAIN d |-> clean_csv_value(d[k])]

\* is_effectively_empty: every value is None or ""
is_effectively_empty(row) == \A k \in DOMAIN row : row[k] \in {None, PyStr("")}

\* the parameter skip_empty, left at its default
skip_empty == TRUE

\* records handed to the writer, as a reader sees them
RecEmpty == Pokemon(PyStr(""), "", <<>>, None, EmptyDict)
RecBlank == Pokemon(PyStr(" "), "\n", <<>>, None, [Altura |-> "  "])
RecPikachu ==
    Pokemon(PyStr("025"), "Pikachu", <<"Electric">>,
            PyStr("https://pokemythology.net/img/025.png"), [Altura |-> "0.4m"])
RecNoNumber == Pokemon(PyInt(0), "", <<>>, None, EmptyDict)
RecordPool == {RecEmpty, RecBlank, RecPikachu, RecNoNumber}

CsvInit ==
    /\ url = PageUrl
    /\ soup = <<>>
    /\ ix = 1
    /\ pos = 1
    /\ row_data = EmptyDict
    /\ main_image = None
    /\ yielded = <<>>
    /\ log = <<>>
    /\ pc = "csv_start"
    /\ heap = <<>>
    /\ builder = EmptyDict
    /\ built = <<>>
    /\ trace = <<>>
    /\ urls = <<>>
    /\ url_ix = 1
    /\ failing = {}
    /\ attempted = <<>>
    /\ all_pokemons = <<>>
    /\ pokemons \in SeqsUpTo(RecordPool, MaxRecords)
    /\ csv_pos = 1
    /\ csvfile = <<>>
    /\ written = 0
    /\ result = 0

csv_frame ==
    /\ UNCHANGED <<url, soup, ix, pos, row_data, main_image, yielded, heap>>
    /\ UNCHANGED <<client_vars, main_vars>>

\* lines 67-69: nothing to write
CsvEmptyList ==
    /\ pc = "csv_start"
    /\ pokemons = <<>>
    /\ log' = Append(log, [level |-> "warning", msg |-> "nothing to write"])
    /\ result' = 0
    /\ pc' = "csv_returned"
    /\ UNCHANGED <<pokemons, csv_pos, csvfile, written>>
    /\ csv_frame

\* lines 72-77: the file is opened and the header written
CsvOpen ==
    /\ pc = "csv_start"
    /\ pokemons # <<>>
    /\ written' = 0
    /\ csv_pos' = 1
    /\ csvfile' = <<>>
    /\ pc' = "csv_rows"
    /\ UNCHANGED <<pokemons, result, log>>
    /\ csv_frame

\* `except (IOError, OSError)`: log the error, return 0
CsvExcept ==
    /\ log' = Append(log, [level |-> "error", msg |-> "failed to write"])
    /\ result' = 0
    /\ pc' = "csv_returned"
    /\ UNCHANGED <<pokemons, csv_pos, csvfile, written>>
    /\ csv_frame

\* open() raises
CsvOpenFails ==
    /\ pc = "csv_start"
    /\ pokemons # <<>>
    /\ CsvExcept

\* lines 82-84: an effectively empty row is skipped
CsvSkipRow ==
    /\ pc = "csv_rows"
    /\ csv_pos <= Len(pokemons)
    /\ skip_empty /\ is_effectively_empty(CsvRow(pokemons[csv_pos]))
    /\ log' = Append(log, [level |-> "warning", msg |-> "row skipped"])
    /\ csv_pos' = csv_pos + 1
    /\ UNCHANGED <<pokemons, csvfile, written, result, pc>>
    /\ csv_frame

\* lines 86-87: the row is written and counted
CsvWriteRow ==
    /\ pc = "csv_rows"
    /\ csv_pos <= Len(pokemons)
    /\ ~(skip_empty /\ is_effectively_empty(CsvRow(pokemons[csv_pos])))
    /\ csvfile' = Append(csvfile, CsvRow(pokemons[csv_pos]))
    /\ written' = written + 1
    /\ csv_pos' = csv_pos + 1
    /\ UNCHANGED <<pokemons, result, pc, log>>
    /\ csv_frame

\* writer.writerow raises (disk full, ...): the rows written before stay
CsvWriteFails ==
    /\ pc = "csv_rows"
    /\ csv_pos <= Len(pokemons)
    /\ ~(skip_empty /\ is_effectively_empty(CsvRow(pokemons[csv_pos])))
    /\ CsvExcept

\* lines 89-90: all records handled
CsvReturn ==
    /\ pc = "csv_rows"
    /\ csv_pos > Len(pokemons)
    /\ log' = Append(log, [level |-> "info", msg |-> "exported"])
    /\ result' = written
    /\ pc' = "csv_returned"
    /\ UNCHANGED <<pokemons, csv_pos, csvfile, written>>
    /\ csv_frame

CsvNext ==
    \/ CsvEmptyList
    \/ CsvOpen
    \/ CsvOpenFails
    \/ CsvSkipRow
    \/ CsvWriteRow
    \/ CsvWriteFails
    \/ CsvReturn

CsvSpec == CsvInit /\ [][CsvNext]_vars

\* a record all of whose flattened values are empty
AllEmpty(p) ==
    LET d == to_dict(p, "/")
    IN \A k \in DOMAIN d : d[k] = None \/ (IsStr(d[k]) /\ strip(d[k][2]) = "")

\* the records among the first n that are not all empty, in order
RECURSIVE NonEmptyCount(_, _)
NonEmptyCount(ps, n) ==
    IF n = 0 THEN 0
    ELSE NonEmptyCount(ps, n - 1) + (IF AllEmpty(ps[n]) THEN 0 ELSE 1)

\* C13: the writer omits the row of every record whose flattened values are
\* all empty, writes one row for every other record, and on every path,
\* the failing ones included, returns the number of data rows that are in
\* the file.
C13_ReturnsRowsWritten ==
    /\ pc = "csv_rows" => Len(csvfile) = NonEmptyCount(pokemons, csv_pos - 1)
    /\ pc = "csv_returned" => result = Len(csvfile)

(***************************************************************************)
(* main.py: main()                                                         *)
(***************************************************************************)
START_PAGE == PageUrl

\* the page URLs of the site, in ascending order (as sorted() leaves them)
UrlPool ==
    <<"https://pokemythology.net/conteudo/pokemon/index.htm",
      "https://pokemythology.net/conteudo/pokemon/lista01.htm",
      "https://pokemythology.net/conteudo/pokemon/lista02.htm",
      "https://pokemythology.net/conteudo/pokemon/lista03.htm">>
UrlSet == {UrlPool[i] : i \in 1..Len(UrlPool)}

\* sorted(set(links)) for links among the pool
RECURSIVE sorted_from(_, _)
sorted_from(links, i) ==
    IF i > Len(UrlPool) THEN <<>>
    ELSE (IF UrlPool[i] \in links THEN <<UrlPool[i]>> ELSE <<>>)
         \o sorted_from(links, i + 1)
sorted_set(links) == sorted_from(links, 1)

\* the attributes of a QuestPokemon object
QuestPokemonAttributes ==
    {"url", "rng", "environment", "difficulty", "challenge", "reward",
     "to_text", "__str__", "DEFAULT_ENVIRONMENTS", "DEFAULT_DIFFICULTIES",
     "DEFAULT_REWARDS", "DEFAULT_CHALLENGES"}

\* `QuestPokemon(url).generate_description()` raises AttributeError
quest_description_raises == "generate_description" \notin QuestPokemonAttributes

\* the records PokemonCrawler(u).crawl() returns for a page that is fetched
PageRecords(u) == <<[page |-> u]>>

MainInit ==
    /\ url = PageUrl
    /\ soup = <<>>
    /\ ix = 1
    /\ pos = 1
    /\ row_data = EmptyDict
    /\ main_image = None
    /\ yielded = <<>>
    /\ log = <<>>
    /\ pc = "main_start"
    /\ heap = <<>>
    /\ builder = EmptyDict
    /\ built = <<>>
    /\ trace = <<>>
    /\ urls = <<>>
    /\ url_ix = 1
    /\ failing \in SUBSET UrlSet
    /\ attempted = <<>>
    /\ all_pokemons = <<>>
    /\ pokemons = <<>>
    /\ csv_pos = 1
    /\ csvfile = <<>>
    /\ written = 0
    /\ result = 0

main_frame ==
    /\ UNCHANGED <<url, soup, ix, pos, row_data, main_image, yielded, heap>>
    /\ UNCHANGED <<client_vars, csv_vars>>

\* lines 84-89: the discovered pages, START_PAGE put first when it is not
\* among them
MainDiscover ==
    /\ pc = "main_start"
    /\ \E links \in SUBSET UrlSet :
          urls' = IF START_PAGE \notin links
                  THEN <<START_PAGE>> \o sorted_set(links)
                  ELSE sorted_set(links)
    /\ url_ix' = 1
    /\ pc' = "main_loop"
    /\ UNCHANGED <<failing, attempted, all_pokemons, log>>
    /\ main_frame

\* lines 93-110: one iteration of `for url in urls`, or the end of the loop
MainLoop ==
    /\ pc = "main_loop"
    /\ IF url_ix > Len(urls)
       THEN \* lines 108-117
            /\ pc' = "main_done"
            /\ log' = IF all_pokemons = <<>>
                      THEN Append(log, [level |-> "warning", msg |-> "No Pokémon captured."])
                      ELSE log
            /\ UNCHANGED <<urls, url_ix, failing, attempted, all_pokemons>>
       ELSE IF quest_description_raises
       THEN \* line 98, outside the try: the exception leaves main()
            /\ pc' = "main_aborted"
            /\ UNCHANGED <<urls, url_ix, failing, attempted, all_pokemons, log>>
       ELSE \* lines 100-106
            /\ attempted' = Append(attempted, urls[url_ix])
            /\ IF urls[url_ix] \in failing
               THEN /\ log' = Append(log, [level |-> "error", url |-> urls[url_ix]])
                    /\ UNCHANGED all_pokemons
               ELSE /\ all_pokemons' = all_pokemons \o PageRecords(urls[url_ix])
                    /\ UNCHANGED log
            /\ url_ix' = url_ix + 1
            /\ UNCHANGED <<urls, failing, pc>>
    /\ main_frame

MainNext ==
    \/ MainDiscover
    \/ MainLoop

MainSpec == MainInit /\ [][MainNext]_vars

\* C14: no failure while handling one page URL aborts the run: the run
\* never ends by an exception, and when it ends every URL of the list was
\* attempted once, in list order, the failing pages logged and the records
\* of the other pages collected.
C14_NoPageAbortsTheRun ==
    /\ pc # "main_aborted"
    /\ pc = "main_done" =>
          /\ attempted = urls
          /\ \A i \in 1..Len(urls) :
                (urls[i] \in failing) =
                   (\E j \in 1..Len(log) : log[j].level = "error" /\ log[j].url = urls[i])
          /\ \A i \in 1..Len(urls) :
                (urls[i] \notin failing) =
                   (\E j \in 1..Len(all_pokemons) : all_pokemons[j].page = urls[i])

(***************************************************************************)
(* The setters of the builder, read off the calls of the client            *)
(***************************************************************************)
\* the positions of the calls of setter op
CallsOf(calls, op) == {i \in 1..Len(calls) : calls[i][1] = op}

\* the argument of the last call of setter op
LastArg(calls, op) ==
    LET S == CallsOf(calls, op)
    IN calls[CHOOSE i \in S : \A j \in S : j <= i][2]

\* the arguments of the add_type calls, in call order
TypeArgs(calls) ==
    LET s == SelectSeq(calls, LAMBDA c : c[1] = "add_type")
    IN [i \in 1..Len(s) |-> s[i][2]]

\* the keys given to add_attribute, and the value of the last call for a key
AttrKeysOf(calls) == {calls[i][2] : i \in CallsOf(calls, "add_attribute")}
LastValue(calls, k) ==
    LET S == {i \in CallsOf(calls, "add_attribute") : calls[i][2] = k}
    IN calls[CHOOSE i \in S : \A j \in S : j <= i][3]

\* C15: whatever setters were called, in whatever order and number, they
\* all acted on the one builder instance (its list and dict are the ones it
\* was constructed with); number, name and image hold the argument of their
\* last call, an attribute key holds the value of its last add_attribute,
\* and the types are the arguments of all add_type calls, duplicates
\* included, in call order.
C15_SettersChainAndAccumulate ==
    /\ builder.types = 1 /\ builder.extra_attributes = 2
    /\ \A op \in {"number", "name", "image"} :
          /\ (op \in DOMAIN builder) = (CallsOf(trace, op) # {})
          /\ op \in DOMAIN builder => builder[op] = LastArg(trace, op)
    /\ heap[builder.types] = TypeArgs(trace)
    /\ DOMAIN heap[builder.extra_attributes] = AttrKeysOf(trace)
    /\ \A k \in AttrKeysOf(trace) :
          heap[builder.extra_attributes][k] = LastValue(trace, k)

\* a type added twice, and a number set twice with different arguments
C15_Witness ==
    /\ \E i, j \in CallsOf(trace, "add_type") : i < j /\ trace[i][2] = trace[j][2]
    /\ \E i, j \in CallsOf(trace, "number") : i < j /\ trace[i][2] # trace[j][2]
    /\ Len(heap[builder.types]) = 2
    /\ builder.number = LastArg(trace, "number")

(***************************************************************************)
(* The identifier rule, as the two shapes are described                    *)
(***************************************************************************)
\* the rows of the table being scanned, and the row scanned last
Trs == soup[ix].trs
RowScanned == pc = "rows" /\ pos > 1

\* shape (a): three cells, the second one is "Nº:" once trimmed
IsShapeA(tds) == Len(tds) = 3 /\ strip(get_text(tds[2])) = "Nº:"
\* shape (b): two cells or more, the first one contains "Nº"
IsShapeB(tds) == Len(tds) >= 2 /\ Contains(get_text(tds[1]), "Nº")
IsIdentifierRow(tds) == IsShapeA(tds) \/ IsShapeB(tds)
IdentifierOf(tds) ==
    IF IsShapeA(tds) THEN strip(get_text(tds[3])) ELSE strip(get_text(tds[2]))

\* C16: once a 3-cell row whose second cell is "Nº:" (trimmed) has been
\* scanned, the identifier is the trimmed text of its third cell, whatever
\* the first cell holds.
C16_ShapeAGivesThirdCell ==
    (RowScanned /\ IsShapeA(Trs[pos - 1])) =>
        /\ "Nº" \in DOMAIN row_data
        /\ row_data["Nº"] = strip(get_text(Trs[pos - 1][3]))

\* C17: when several scanned rows match the identifier rule, the
\* identifier is the value of the last of them.
C17_LastIdentifierRowWins ==
    RowScanned =>
        \A r1, r2 \in 1..(pos - 1) :
            (/\ r1 < r2
             /\ IsIdentifierRow(Trs[r1])
             /\ IsIdentifierRow(Trs[r2])
             /\ \A r \in (r2 + 1)..(pos - 1) : ~IsIdentifierRow(Trs[r]))
            => /\ "Nº" \in DOMAIN row_data
               /\ row_data["Nº"] = IdentifierOf(Trs[r2])

(***************************************************************************)
(* The variant image of a marker row                                       *)
(***************************************************************************)
\* the images of a row that carry a reference (a non-empty src)
RowRefs(tds) == SelectSeq(row_imgs(tds), LAMBDA i : Truthy(tag_get(i, "src")))

\* the image references of the row at r, then those of the row after it
RefsFrom(trs, r) ==
    RowRefs(trs[r]) \o (IF r + 1 <= Len(trs) THEN RowRefs(trs[r + 1]) ELSE << >>)

\* C18: once a marker row has been scanned, the variant image is the
\* image reference found in that row, or else the one found in the row
\* right after it: it is set whenever one of the two rows provides one.
C18_VariantFromRowOrNext ==
    (RowScanned /\ IsShinyRow(Trs[pos - 1]) /\ RefsFrom(Trs, pos - 1) # << >>) =>
        /\ "Coloração Shiny" \in DOMAIN row_data
        /\ row_data["Coloração Shiny"] = urljoin(BASE_URL, RefsFrom(Trs, pos - 1)[1].src)

\* the scan of a marker row
MarkerRowStep ==
    /\ pc = "rows" /\ pc' = "rows"
    /\ pos <= Len(Trs) /\ pos' = pos + 1
    /\ IsShinyRow(Trs[pos])

\* C19: the scan of a marker row adds no label/value entry: every entry
\* but the primary image, the identifier and the variant image is as it
\* was, and the variant image, when written, is an image of this row or of
\* the next one, never a cell's text.
C19_MarkerRowSkipsLabelValue ==
    [][MarkerRowStep =>
         /\ DOMAIN row_data \subseteq DOMAIN row_data'
         /\ \A k \in (DOMAIN row_data') \ {"Imagem", "Nº", "Coloração Shiny"} :
               k \in DOMAIN row_data /\ row_data'[k] = row_data[k]
         /\ \/ /\ "Coloração Shiny" \in DOMAIN row_data
               /\ row_data'["Coloração Shiny"] = row_data["Coloração Shiny"]
            \/ /\ "Coloração Shiny" \notin DOMAIN row_data
               /\ "Coloração Shiny" \notin DOMAIN row_data'
            \/ \E i \in 1..Len(RefsFrom(Trs, pos)) :
                  row_data'["Coloração Shiny"] = urljoin(BASE_URL, RefsFrom(Trs, pos)[i].src)
    ]_vars

\* a marker row whose first cell is a label has been scanned and its label
\* is not in the accumulator
C19_Witness ==
    /\ RowScanned
    /\ IsShinyRow(Trs[pos - 1])
    /\ Len(Trs[pos - 1]) >= 2
    /\ endswith(get_text_strip(Trs[pos - 1][1]), ":")
    /\ rstrip_colon(get_text_strip(Trs[pos - 1][1])) \notin (DOMAIN row_data) \cup {"Coloração Shiny"}

====
